---- MODULE Spec2Model ----
(***************************************************************************)
(* The notebook StPetersburgToMoscow.ipynb: a maximum-flow problem on a    *)
(* fixed network, written as a linear program and handed to linprog.       *)
(* Vectors and matrix rows are tuples; the notebook's 0-based index i is   *)
(* position i+1 of the tuple (see At).                                     *)
(***************************************************************************)
EXTENDS Integers, Sequences, FiniteSets, TLC

\* ------------------------------------------------------------------ data

\* An edge label "e_XY" as the sequence of its characters.
Lab(a, b) == <<"e", "_", a, b>>

\* labs[i] with the notebook's 0-based index.
At(v, i) == v[i + 1]

\* The node an edge leaves / enters, read off its label e_<from><to>.
From(l) == l[3]
To(l) == l[4]

labs == << Lab("s","A"), Lab("s","B"), Lab("A","C"), Lab("A","D"), Lab("B","C"),
           Lab("B","E"), Lab("C","E"), Lab("C","G"), Lab("D","I"), Lab("E","F"),
           Lab("E","G"), Lab("F","H"), Lab("G","H"), Lab("H","t"), Lab("G","I"),
           Lab("I","J"), Lab("J","t") >>

NumEdges == Len(labs)

nums == [i \in 1..NumEdges |-> i - 1]

\* obj with e_Ht left out: only the last edge counted
obj_last_only == <<0, 0, 0, 0, 0, 0, 0, 0, 0, 0, 0, 0, 0, 0, 0, 0, -1>>

\* obj with the first -1 one place early (on e_GH instead of e_Ht)
obj_off_by_one == <<0, 0, 0, 0, 0, 0, 0, 0, 0, 0, 0, 0, -1, 0, 0, 0, -1>>

obj == <<0, 0, 0, 0, 0, 0, 0, 0, 0, 0, 0, 0, 0, -1, 0, 0, -1>>

\* np.eye(n): the n x n identity.
Eye(n) == [r \in 1..n |-> [c \in 1..n |-> IF r = c THEN 1 ELSE 0]]

\* np.eye(17, k=1): the ones one column to the right of the diagonal
lhs_capacity_shifted == [r \in 1..17 |-> [c \in 1..17 |-> IF c = r + 1 THEN 1 ELSE 0]]

lhs_capacity == Eye(17)

\* the capacity list with e_sA copied as 2 instead of 3
rhs_capacity_slip == <<2, 3, 4, 2, 2, 2, 3, 4, 5, 3, 4, 4, 3, 5, 3, 3, 1>>

rhs_capacity == <<3, 3, 4, 2, 2, 2, 3, 4, 5, 3, 4, 4, 3, 5, 3, 3, 1>>

\* lhs_balance with the sign of e_AD wrong in the row of A
lhs_balance_sign ==
  << <<1, 1, 0, 0, 0, 0, 0, 0, 0, 0, 0, 0, 0, -1, 0, 0, -1>>,
     <<-1, 0, 1, -1, 0, 0, 0, 0, 0, 0, 0, 0, 0, 0, 0, 0, 0>>,
     <<0, -1, 0, 0, 1, 1, 0, 0, 0, 0, 0, 0, 0, 0, 0, 0, 0>>,
     <<0, 0, -1, 0, -1, 0, 1, 1, 0, 0, 0, 0, 0, 0, 0, 0, 0>>,
     <<0, 0, 0, -1, 0, 0, 0, 0, 1, 0, 0, 0, 0, 0, 0, 0, 0>>,
     <<0, 0, 0, 0, 0, -1, -1, 0, 0, 1, 1, 0, 0, 0, 0, 0, 0>>,
     <<0, 0, 0, 0, 0, 0, 0, 0, 0, -1, 0, 1, 0, 0, 0, 0, 0>>,
     <<0, 0, 0, 0, 0, 0, 0, -1, 0, 0, -1, 0, 1, 0, 1, 0, 0>>,
     <<0, 0, 0, 0, 0, 0, 0, 0, 0, 0, 0, -1, -1, 1, 0, 0, 0>>,
     <<0, 0, 0, 0, 0, 0, 0, 0, -1, 0, 0, 0, 0, 0, -1, 1, 0>>,
     <<0, 0, 0, 0, 0, 0, 0, 0, 0, 0, 0, 0, 0, 0, 0, -1, 1>>,
     <<0, 0, 0, 0, 0, 0, 0, 0, 0, 0, 0, 0, 0, 0, 0, 0, 0>> >>

lhs_balance ==
  << <<1, 1, 0, 0, 0, 0, 0, 0, 0, 0, 0, 0, 0, -1, 0, 0, -1>>,
     <<-1, 0, 1, 1, 0, 0, 0, 0, 0, 0, 0, 0, 0, 0, 0, 0, 0>>,
     <<0, -1, 0, 0, 1, 1, 0, 0, 0, 0, 0, 0, 0, 0, 0, 0, 0>>,
     <<0, 0, -1, 0, -1, 0, 1, 1, 0, 0, 0, 0, 0, 0, 0, 0, 0>>,
     <<0, 0, 0, -1, 0, 0, 0, 0, 1, 0, 0, 0, 0, 0, 0, 0, 0>>,
     <<0, 0, 0, 0, 0, -1, -1, 0, 0, 1, 1, 0, 0, 0, 0, 0, 0>>,
     <<0, 0, 0, 0, 0, 0, 0, 0, 0, -1, 0, 1, 0, 0, 0, 0, 0>>,
     <<0, 0, 0, 0, 0, 0, 0, -1, 0, 0, -1, 0, 1, 0, 1, 0, 0>>,
     <<0, 0, 0, 0, 0, 0, 0, 0, 0, 0, 0, -1, -1, 1, 0, 0, 0>>,
     <<0, 0, 0, 0, 0, 0, 0, 0, -1, 0, 0, 0, 0, 0, -1, 1, 0>>,
     <<0, 0, 0, 0, 0, 0, 0, 0, 0, 0, 0, 0, 0, 0, 0, -1, 1>>,
     <<0, 0, 0, 0, 0, 0, 0, 0, 0, 0, 0, 0, 0, 0, 0, 0, 0>> >>

\* np.zeros(n)
Zeros(n) == [i \in 1..n |-> 0]

\* np.ones(12) in place of np.zeros(12)
rhs_balance_ones == [i \in 1..12 |-> 1]

rhs_balance == Zeros(12)

\* The nodes in the order of lhs_balance's rows (the row comments).
nodes == <<"s", "A", "B", "C", "D", "E", "F", "G", "H", "I", "J", "t">>

source == "s"

sink == "t"

\* opt.x as the notebook's run printed it
recorded_x == <<3, 3, 2, 1, 1, 2, 1, 2, 1, 3, 0, 3, 2, 5, 0, 1, 1>>

\* float("inf")
Inf == "inf"

bnd == << <<0, Inf>>, <<0, Inf>>, <<0, Inf>>, <<0, Inf>>, <<0, Inf>>, <<0, Inf>>,
          <<0, Inf>>, <<0, Inf>>, <<0, Inf>>, <<0, Inf>>, <<0, Inf>>, <<0, Inf>> >>

\* ------------------------------------------------------- linear algebra

\* sum of r[i] * p[i] for i in 1..j
RECURSIVE Dot(_, _, _)
Dot(r, p, j) == IF j = 0 THEN 0 ELSE r[j] * p[j] + Dot(r, p, j - 1)

\* the last column in which row r is not zero (0 for a zero row)
RECURSIVE LastNZ(_, _)
LastNZ(r, j) == IF j = 0 THEN 0 ELSE IF r[j] # 0 THEN j ELSE LastNZ(r, j - 1)

\* the rows of A whose last non-zero column is j
ClosedAt(A, j) == { r \in 1..Len(A) : LastNZ(A[r], Len(A[r])) = j }

\* the non-zero columns of row r up to column j, as a sequence
RECURSIVE Support(_, _)
Support(r, j) ==
  IF j = 0 THEN <<>>
  ELSE IF r[j] # 0 THEN Append(Support(r, j - 1), j) ELSE Support(r, j - 1)

\* sum of r[c] * p[c] over the first n columns c listed in cols
RECURSIVE DotOn(_, _, _, _)
DotOn(r, p, cols, n) ==
  IF n = 0 THEN 0 ELSE r[cols[n]] * p[cols[n]] + DotOn(r, p, cols, n - 1)

\* ------------------------------------------------------------- linprog

\* Flows are counted in whole units, and a variable without a finite upper
\* bound is enumerated up to MaxUnits.
MaxUnits == 6

\* linprog's default when no bounds are passed: (0, None) for every variable
DefaultBounds(n) == [i \in 1..n |-> <<0, Inf>>]

\* the values variable j may take under its bound pair
Range(bounds, j) ==
  bounds[j][1] .. (IF bounds[j][2] = Inf THEN MaxUnits ELSE bounds[j][2])

\* The choices of the first j variables that break no bound and no row of
\* A_ub x <= b_ub, A_eq x = b_eq whose variables are all among the first j.
RECURSIVE Prefixes(_, _, _, _, _, _)
Prefixes(A_ub, b_ub, A_eq, b_eq, bounds, j) ==
  IF j = 0 THEN { <<>> }
  ELSE LET prev == Prefixes(A_ub, b_ub, A_eq, b_eq, bounds, j - 1)
           ub == ClosedAt(A_ub, j)
           eq == ClosedAt(A_eq, j)
           sub == [r \in ub |-> Support(A_ub[r], j - 1)]
           seq == [r \in eq |-> Support(A_eq[r], j - 1)]
           Ext(p) ==
             LET du == [r \in ub |-> DotOn(A_ub[r], p, sub[r], Len(sub[r]))]
                 de == [r \in eq |-> DotOn(A_eq[r], p, seq[r], Len(seq[r]))]
             IN { Append(p, w) : w \in { v \in Range(bounds, j) :
                    /\ \A r \in ub : A_ub[r][j] * v + du[r] <= b_ub[r]
                    /\ \A r \in eq : A_eq[r][j] * v + de[r] = b_eq[r] } }
       IN UNION { Ext(p) : p \in prev }

\* a zero row (no variable at all) holds or fails on its right-hand side alone
ZeroRowsOK(A_ub, b_ub, A_eq, b_eq, n) ==
  /\ \A r \in 1..Len(A_ub) : LastNZ(A_ub[r], n) = 0 => 0 <= b_ub[r]
  /\ \A r \in 1..Len(A_eq) : LastNZ(A_eq[r], n) = 0 => 0 = b_eq[r]

\* the feasible region: every x within the bounds with A_ub x <= b_ub, A_eq x = b_eq
Feasible(A_ub, b_ub, A_eq, b_eq, bounds, n) ==
  IF ZeroRowsOK(A_ub, b_ub, A_eq, b_eq, n)
  THEN Prefixes(A_ub, b_ub, A_eq, b_eq, bounds, n)
  ELSE {}

\* the least element of a non-empty set of integers
Least(S) == CHOOSE v \in S : \A w \in S : v <= w

\* the feasible points of least objective c . x
Optimal(c, F) ==
  LET n == Len(c)
      best == Least({ Dot(c, y, n) : y \in F })
  IN { y \in F : Dot(c, y, n) = best }

\* b - A y, row by row
Residual(A, b, y) == [r \in 1..Len(A) |-> b[r] - Dot(A[r], y, Len(y))]

\* linprog stopping at any feasible point, optimal or not
linprog_any_feasible(c, A_ub, b_ub, A_eq, b_eq, bounds) ==
  LET n == Len(c)
      bds == IF bounds = <<>> THEN DefaultBounds(n) ELSE bounds
      F == Feasible(A_ub, b_ub, A_eq, b_eq, bds, n)
  IN { [x |-> y, fun |-> Dot(c, y, n), status |-> 0, success |-> TRUE,
        slack |-> Residual(A_ub, b_ub, y), con |-> Residual(A_eq, b_eq, y)] :
       y \in F }

\* linprog(c, A_ub, b_ub, A_eq, b_eq, bounds): the results the call can return.
\* bounds = <<>> stands for the keyword left out (None).
linprog(c, A_ub, b_ub, A_eq, b_eq, bounds) ==
  LET n == Len(c)
      bds == IF bounds = <<>> THEN DefaultBounds(n) ELSE bounds
      F == Feasible(A_ub, b_ub, A_eq, b_eq, bds, n)
  IN IF F = {}
     THEN { [x |-> Zeros(n), fun |-> 0, status |-> 2, success |-> FALSE,
             slack |-> b_ub, con |-> b_eq] }
     ELSE { [x |-> y, fun |-> Dot(c, y, n), status |-> 0, success |-> TRUE,
             slack |-> Residual(A_ub, b_ub, y), con |-> Residual(A_eq, b_eq, y)] :
            y \in Optimal(c, F) }

\* ------------------------------------------------------------ notebook

\* ns: the kernel's namespace, the names defined so far and their values.
\* edit: the change made to cell 7's capacity list before it is run, <<k, d>>:
\*       edge k (1-based position) has its capacity raised by d; <<0, 0>> is the
\*       notebook as written.
\* calls: the log of linprog calls made, with the arguments that vary and the
\*        objective value returned.
\* queue: the cells a Run All has queued and not yet executed, in notebook
\*        order; empty when cells are run by hand, one at a time, in any order.
VARIABLES ns, edit, calls, queue

vars == <<ns, edit, calls, queue>>

Defined(names) == names \subseteq DOMAIN ns

NoEdit == <<0, 0>>

\* the code cells of the notebook, top to bottom
AllCells == <<1, 3, 5, 7, 9, 11, 12, 14, 17>>

\* cell c is the one the kernel executes next
Turn(c) == IF queue = <<>> THEN TRUE ELSE Head(queue) = c

\* the queue after a cell has run: the rest of it when the cell ran through,
\* nothing when it raised (the kernel drops the queued cells on an error)
After(ok) == IF ok /\ queue # <<>> THEN Tail(queue) ELSE <<>>

\* cell 7's capacity list under the edit e
Edited(cap, e) == [i \in 1..Len(cap) |-> IF i = e[1] THEN cap[i] + e[2] ELSE cap[i]]

Cell1Defs == ("np" :> "numpy") @@ ("linprog" :> "scipy.optimize.linprog")

Cell5Defs == ("obj" :> obj)

Cell7Defs(e) == ("lhs_capacity" :> lhs_capacity) @@ ("rhs_capacity" :> Edited(rhs_capacity, e))

\* the label as numpy holds it, one string
Str(l) == l[1] \o l[2] \o l[3] \o l[4]

\* a float array element as column_stack prints it beside strings: 3.0 -> "3.0"
FloatStr(v) == ToString(v) \o ".0"

\* np.column_stack([nums, labs, rhs_capacity]): one row of strings per edge
Cell9Defs(n) ==
  ("labeled_capacity" :>
     [i \in 1..Len(n.labs) |->
        <<ToString(n.nums[i]), Str(n.labs[i]), ToString(n.rhs_capacity[i])>>])

Cell12Defs == ("bnd" :> bnd)

\* np.column_stack([labs, x]): one row of strings per edge
StackFlow(n) ==
  ("optimal_flow" :> [i \in 1..Len(n.labs) |-> <<Str(n.labs[i]), FloatStr(n.x[i])>>])

\* A cell is a sequence of statements run in order. A statement that reads an
\* undefined name raises NameError: the cell stops there and the names bound
\* by its earlier statements stay bound. A cell that raises on its first
\* statement leaves the kernel as it was. A cell is run until it has run
\* through once; running it again after that is left out.

\* import numpy as np; from scipy.optimize import linprog
Cell1 ==
  /\ Turn(1) /\ ~ Defined({"np", "linprog"})
  /\ ns' = Cell1Defs @@ ns
  /\ queue' = After(TRUE)
  /\ UNCHANGED <<edit, calls>>

\* labs = [...] reads nothing; nums = np.arange(17) reads np
Cell3 ==
  /\ Turn(3) /\ ~ Defined({"labs", "nums"})
  /\ LET n1 == ("labs" :> labs) @@ ns
     IN IF "np" \in DOMAIN n1
        THEN ns' = ("nums" :> nums) @@ n1 /\ queue' = After(TRUE)
        ELSE ns' = n1 /\ queue' = After(FALSE)
  /\ UNCHANGED <<edit, calls>>

Cell5 ==
  /\ Turn(5) /\ ~ Defined({"obj"})
  /\ ns' = Cell5Defs @@ ns
  /\ queue' = After(TRUE)
  /\ UNCHANGED <<edit, calls>>

\* lhs_capacity = np.eye(17) comes first and reads np
Cell7 ==
  /\ Turn(7) /\ Defined({"np"}) /\ ~ Defined({"lhs_capacity", "rhs_capacity"})
  /\ ns' = Cell7Defs(edit) @@ ns
  /\ queue' = After(TRUE)
  /\ UNCHANGED <<edit, calls>>

Cell9 ==
  /\ Turn(9) /\ Defined({"np", "nums", "labs", "rhs_capacity"})
  /\ ~ Defined({"labeled_capacity"})
  /\ ns' = Cell9Defs(ns) @@ ns
  /\ queue' = After(TRUE)
  /\ UNCHANGED <<edit, calls>>

\* lhs_balance = [...] reads nothing; rhs_balance = np.zeros(12) reads np
Cell11 ==
  /\ Turn(11) /\ ~ Defined({"lhs_balance", "rhs_balance"})
  /\ LET n1 == ("lhs_balance" :> lhs_balance) @@ ns
     IN IF "np" \in DOMAIN n1
        THEN ns' = ("rhs_balance" :> rhs_balance) @@ n1 /\ queue' = After(TRUE)
        ELSE ns' = n1 /\ queue' = After(FALSE)
  /\ UNCHANGED <<edit, calls>>

Cell12 ==
  /\ Turn(12) /\ ~ Defined({"bnd"})
  /\ ns' = Cell12Defs @@ ns
  /\ queue' = After(TRUE)
  /\ UNCHANGED <<edit, calls>>

\* opt = linprog(c=obj, A_ub=lhs_capacity, b_ub=rhs_capacity, A_eq=lhs_balance,
\*               b_eq=rhs_balance, method="revised simplex"): no bounds passed
Cell14 ==
  /\ Turn(14)
  /\ Defined({"linprog", "obj", "lhs_capacity", "rhs_capacity", "lhs_balance", "rhs_balance"})
  /\ ~ Defined({"opt"})
  /\ \E r \in linprog(ns.obj, ns.lhs_capacity, ns.rhs_capacity,
                      ns.lhs_balance, ns.rhs_balance, <<>>) :
       /\ ns' = ("opt" :> r) @@ ns
       /\ calls' = Append(calls, [b_ub |-> ns.rhs_capacity, bounds |-> <<>>,
                                  fun |-> r.fun, status |-> r.status])
  /\ queue' = After(TRUE)
  /\ UNCHANGED edit

\* x = opt['x'] reads opt; optimal_flow = np.column_stack([labs, x]) reads np
\* and labs
Cell17 ==
  /\ Turn(17) /\ Defined({"opt"}) /\ ~ Defined({"x", "optimal_flow"})
  /\ LET n1 == ("x" :> ns.opt.x) @@ ns
     IN IF {"np", "labs"} \subseteq DOMAIN n1
        THEN ns' = StackFlow(n1) @@ n1 /\ queue' = After(TRUE)
        ELSE ns' = n1 /\ queue' = After(FALSE)
  /\ UNCHANGED <<edit, calls>>

\* a fresh kernel, the notebook as written, cells run by hand
Init ==
  /\ ns = [n \in {} |-> 0]
  /\ edit = NoEdit
  /\ calls = <<>>
  /\ queue = <<>>

Next ==
  \/ Cell1
  \/ Cell3
  \/ Cell5
  \/ Cell7
  \/ Cell9
  \/ Cell11
  \/ Cell12
  \/ Cell14
  \/ Cell17

Spec == Init /\ [][Next]_vars

\* ------------------------------------------- re-running with an edit

\* How far a capacity of cell 7 is lowered or raised before a re-run.
MaxDelta == 1

Min(a, b) == IF a <= b THEN a ELSE b

\* Edit cell 7 (raise the edited edge's capacity by one more unit), then
\* Restart & Run All: the kernel's namespace is cleared and every cell is
\* queued; each queued cell is then executed as a step of its own. The log of
\* calls is kept.
RaiseCapacity ==
  /\ queue = <<>> /\ Defined({"opt"})
  /\ edit[1] # 0 /\ edit[2] < MaxDelta
  /\ edit' = <<edit[1], edit[2] + 1>>
  /\ ns' = [n \in {} |-> 0]
  /\ queue' = AllCells
  /\ UNCHANGED calls

\* cell 7 edited on one edge, a fresh kernel, Run All requested
InitCap ==
  /\ \E k \in 1..NumEdges : edit = <<k, - Min(MaxDelta, rhs_capacity[k])>>
  /\ ns = [n \in {} |-> 0]
  /\ calls = <<>>
  /\ queue = AllCells

NextCap ==
  \/ Cell1
  \/ Cell3
  \/ Cell5
  \/ Cell7
  \/ Cell9
  \/ Cell11
  \/ Cell12
  \/ Cell14
  \/ Cell17
  \/ RaiseCapacity

SpecCap == InitCap /\ [][NextCap]_vars

\* ------------------------------------------------ FlowLPBuilder (design)

\* the coefficient of edge e in the balance row of node n: +1 into n, -1 out of n
Incidence(e, n) == IF e.to = n THEN 1 ELSE IF e.from = n THEN -1 ELSE 0

\* the positions i of seq with seq[i] # v, in order
RECURSIVE Without(_, _, _)
Without(seq, v, i) ==
  IF i = 0 THEN <<>>
  ELSE IF seq[i] = v THEN Without(seq, v, i - 1)
       ELSE Append(Without(seq, v, i - 1), seq[i])

InSeq(seq, v) == \E i \in 1..Len(seq) : seq[i] = v

\* build with the balance rows of `rowNodes`
BuildWith(g, snk, rowNodes) ==
  LET m == Len(g.edges)
  IN [ok |-> TRUE,
      c |-> [j \in 1..m |-> IF g.edges[j].to = snk THEN -1 ELSE 0],
      A_ub |-> Eye(m),
      b_ub |-> [j \in 1..m |-> g.edges[j].capacity],
      A_eq |-> [r \in 1..Len(rowNodes) |->
                  [j \in 1..m |-> Incidence(g.edges[j], rowNodes[r])]],
      b_eq |-> Zeros(Len(rowNodes)),
      bounds |-> [j \in 1..m |-> <<0, Inf>>]]

\* build that leaves out the source's balance row as well as the sink's
build_internal_rows(g, src, snk) ==
  IF \/ ~ InSeq(g.nodes, src) \/ ~ InSeq(g.nodes, snk)
     \/ \E j \in 1..Len(g.edges) : g.edges[j].capacity < 0
  THEN [ok |-> FALSE]
  ELSE BuildWith(g, snk, Without(Without(g.nodes, snk, Len(g.nodes)), src,
                                 Len(Without(g.nodes, snk, Len(g.nodes)))))

\* build(graph, source, sink): the LP of the graph, one balance row per node
\* other than the sink, or a construction error
build(g, src, snk) ==
  IF \/ ~ InSeq(g.nodes, src) \/ ~ InSeq(g.nodes, snk)
     \/ \E j \in 1..Len(g.edges) : g.edges[j].capacity < 0
  THEN [ok |-> FALSE]
  ELSE BuildWith(g, snk, Without(g.nodes, snk, Len(g.nodes)))

\* decode(graph, solutionVector): label -> flow, a negative value shown as 0
decode(g, y) ==
  [j \in 1..Len(g.edges) |-> <<g.edges[j].label, IF y[j] < 0 THEN 0 ELSE y[j]>>]

\* The graphs tried: nodes s, a, b, t, up to MaxEdges of the 12 possible
\* edges, every edge with the same capacity in -1..GraphCap.
MaxEdges == 3

GraphCap == 1

GraphNodes == <<"s", "a", "b", "t">>

Candidates ==
  << <<"s","a">>, <<"s","b">>, <<"s","t">>, <<"a","s">>, <<"a","b">>, <<"a","t">>,
     <<"b","s">>, <<"b","a">>, <<"b","t">>, <<"t","s">>, <<"t","a">>, <<"t","b">> >>

\* the candidates at the positions in S, in order, each with capacity cap
RECURSIVE Pick(_, _, _)
Pick(S, cap, i) ==
  IF i = 0 THEN <<>>
  ELSE IF i \in S
       THEN Append(Pick(S, cap, i - 1),
                   [label |-> Lab(Candidates[i][1], Candidates[i][2]),
                    from |-> Candidates[i][1], to |-> Candidates[i][2],
                    capacity |-> cap])
       ELSE Pick(S, cap, i - 1)

Graphs ==
  { [nodes |-> GraphNodes, edges |-> Pick(S, cap, Len(Candidates))] :
      S \in { T \in SUBSET (1..Len(Candidates)) :
                Cardinality(T) >= 1 /\ Cardinality(T) <= MaxEdges },
      cap \in (-1)..GraphCap }

Build ==
  /\ Defined({"graph"}) /\ ~ Defined({"lp"})
  /\ ns' = ("lp" :> build(ns.graph, ns.source, ns.sink)) @@ ns
  /\ UNCHANGED <<edit, calls, queue>>

SolveBuilt ==
  /\ Defined({"lp"}) /\ ~ Defined({"result"})
  /\ ns.lp.ok
  /\ \E r \in linprog(ns.lp.c, ns.lp.A_ub, ns.lp.b_ub, ns.lp.A_eq, ns.lp.b_eq,
                      ns.lp.bounds) :
       ns' = ("result" :> r) @@ ns
  /\ UNCHANGED <<edit, calls, queue>>

Decode ==
  /\ Defined({"result"}) /\ ~ Defined({"flow"})
  /\ ns.result.success
  /\ ns' = ("flow" :> decode(ns.graph, ns.result.x)) @@ ns
  /\ UNCHANGED <<edit, calls, queue>>

InitBuild ==
  /\ \E g \in Graphs : ns = ("graph" :> g) @@ ("source" :> "s") @@ ("sink" :> "t")
  /\ edit = NoEdit
  /\ calls = <<>>
  /\ queue = <<>>

NextBuild ==
  \/ Build
  \/ SolveBuilt
  \/ Decode

SpecBuild == InitBuild /\ [][NextBuild]_vars

\* ------------------------------------------------------- the network

\* the positions of the edges entering / leaving node n, read off the labels
Into(n) == { j \in 1..NumEdges : To(labs[j]) = n }
OutOf(n) == { j \in 1..NumEdges : From(labs[j]) = n }

\* sum of y[j] over the positions j in S
RECURSIVE SumAt(_, _)
SumAt(y, S) ==
  IF S = {} THEN 0
  ELSE LET j == CHOOSE k \in S : TRUE IN y[j] + SumAt(y, S \ {j})

Inflow(y, n) == SumAt(y, Into(n))
Outflow(y, n) == SumAt(y, OutOf(n))

InternalNodes == { nodes[i] : i \in 1..Len(nodes) } \ {source, sink}

\* the feasible region of the LP that cell 14 hands to linprog
NotebookFeasible ==
  Feasible(lhs_capacity, rhs_capacity, lhs_balance, rhs_balance, DefaultBounds(17), 17)

Solved == Defined({"opt"})

\* ---------------------------------------------------------------- C1

\* C1: in the worked example the maximum flow is exactly 6: the recorded x is
\* a feasible assignment with e_Ht + e_Jt = 6, no feasible assignment has
\* e_Ht + e_Jt > 6, and the solve reports 6.
C1_MaxFlowIsSix ==
  /\ recorded_x \in NotebookFeasible
  /\ At(recorded_x, 13) + At(recorded_x, 16) = 6
  /\ \A y \in NotebookFeasible : At(y, 13) + At(y, 16) <= 6
  /\ Solved => /\ - ns.opt.fun = 6
               /\ At(ns.opt.x, 13) + At(ns.opt.x, 16) = 6

C1_Witness == Solved /\ ns.opt.x = recorded_x /\ ns.opt.fun = -6

\* ---------------------------------------------------------------- C2

\* y keeps every edge within [0, capacity] and conserves flow at A..J
WithinCapacity(y) == \A j \in 1..NumEdges : 0 <= y[j] /\ y[j] <= rhs_capacity[j]
Conserved(y) == \A n \in InternalNodes : Inflow(y, n) = Outflow(y, n)

\* C2: every assignment satisfying the LP's rows and bounds, and so every one
\* the solve returns, has 0 <= flow <= capacity on every edge and inflow equal
\* to outflow at every node other than the source and the sink.
C2_FlowsFeasible ==
  /\ \A y \in NotebookFeasible : WithinCapacity(y) /\ Conserved(y)
  /\ Solved => WithinCapacity(ns.opt.x) /\ Conserved(ns.opt.x)

C2_Witness ==
  /\ Solved
  /\ \E j \in 1..NumEdges : ns.opt.x[j] = rhs_capacity[j]
  /\ \E j \in 1..NumEdges : ns.opt.x[j] = 0
  /\ Inflow(ns.opt.x, "C") = 3

\* ---------------------------------------------------------------- C3

\* C3: for every assignment the solve can return, the negated objective equals
\* the flow on the edges entering the sink and the flow on the edges leaving
\* the source.
C3_ValueIsSinkInAndSourceOut ==
  /\ \A y \in NotebookFeasible :
        /\ - Dot(obj, y, NumEdges) = Inflow(y, sink)
        /\ - Dot(obj, y, NumEdges) = Outflow(y, source)
  /\ Solved => /\ - ns.opt.fun = Inflow(ns.opt.x, sink)
               /\ - ns.opt.fun = Outflow(ns.opt.x, source)

C3_Witness ==
  /\ Solved
  /\ - ns.opt.fun = 6
  /\ ns.opt.x[14] + ns.opt.x[17] = 6
  /\ ns.opt.x[1] + ns.opt.x[2] = 6

\* ---------------------------------------------------------------- C5

\* C5: the LP has a feasible point and a finite optimum: the all-zero flow is
\* feasible, no feasible assignment sends more into the sink than the sink's
\* edges can carry (5 + 1), and the solve ends neither infeasible nor unbounded.
C5_FeasibleAndBounded ==
  /\ Zeros(NumEdges) \in NotebookFeasible
  /\ \A y \in NotebookFeasible :
        Inflow(y, sink) <= SumAt(rhs_capacity, Into(sink))
  /\ SumAt(rhs_capacity, Into(sink)) = 6
  /\ Solved => ns.opt.status = 0 /\ ns.opt.success

C5_Witness == Solved /\ ns.opt.status = 0 /\ ns.opt.success /\ Inflow(ns.opt.x, sink) = 6

\* ---------------------------------------------------------------- C10

\* C10: obj has one entry per edge, -1 exactly on the edges whose destination
\* is the sink (indices 13 and 16) and 0 elsewhere, so the negated optimal
\* objective is the greatest flow into the sink.
C10_ObjectiveMarksSinkEdges ==
  /\ Defined({"obj"}) =>
       /\ Len(ns.obj) = Len(labs)
       /\ \A i \in 0..(Len(labs) - 1) :
            At(ns.obj, i) = IF To(At(labs, i)) = sink THEN -1 ELSE 0
       /\ { i \in 0..(Len(labs) - 1) : At(ns.obj, i) = -1 } = {13, 16}
  /\ Solved => /\ \A y \in NotebookFeasible : Inflow(y, sink) <= - ns.opt.fun
               /\ Inflow(ns.opt.x, sink) = - ns.opt.fun

C10_Witness == Defined({"obj", "labs"}) /\ Solved /\ At(ns.obj, 13) = -1 /\ At(ns.obj, 16) = -1

\* ---------------------------------------------------------------- C4

\* capacity vectors a and b differ in one edge only, where a is the smaller
OneEdgeRaised(a, b) ==
  \E k \in 1..Len(a) : a[k] < b[k] /\ \A j \in 1..Len(a) : j # k => a[j] = b[j]

\* C4: of two solves whose capacity vectors differ in a single edge, the one
\* with the larger capacity has an optimal flow value at least as large.
C4_MonotoneInCapacity ==
  \A i \in 1..Len(calls) : \A j \in 1..Len(calls) :
     OneEdgeRaised(calls[i].b_ub, calls[j].b_ub) => - calls[i].fun <= - calls[j].fun

C4_Witness ==
  /\ Len(calls) >= 2
  /\ OneEdgeRaised(calls[1].b_ub, calls[2].b_ub)
  /\ - calls[1].fun < - calls[2].fun

\* ---------------------------------------------------------------- C7, C8

\* the worked example as a graph of the design
WorkedGraph ==
  [nodes |-> nodes,
   edges |-> [j \in 1..NumEdges |->
                [label |-> labs[j], from |-> From(labs[j]), to |-> To(labs[j]),
                 capacity |-> rhs_capacity[j]]]]

\* the design's LP of the worked example: a balance row for every node but the sink
DesignLP == build(WorkedGraph, source, sink)

\* the same with balance rows for the internal nodes A..J only
InternalLP ==
  LET notSink == Without(nodes, sink, Len(nodes))
  IN BuildWith(WorkedGraph, sink, Without(notSink, source, Len(notSink)))

FeasibleOf(lp) == Feasible(lp.A_ub, lp.b_ub, lp.A_eq, lp.b_eq, lp.bounds, Len(lp.c))

DesignFeasible == FeasibleOf(DesignLP)

InternalFeasible == FeasibleOf(InternalLP)

\* the optimal flow value over a feasible region
BestValue(F) == - Least({ Dot(obj, y, NumEdges) : y \in F })

BalanceDefined == Defined({"lhs_balance", "rhs_balance"})

\* C7 as stated: one row per node other than the sink, no row for the sink,
\* +1 on the edges into the node and -1 on the edges out of it, the source
\* included, right-hand side 0.
C7_Claim ==
  BalanceDefined =>
    /\ Len(ns.lhs_balance) = Len(nodes) - 1
    /\ \A r \in 1..Len(ns.lhs_balance) : ns.lhs_balance[r] = DesignLP.A_eq[r]
    /\ \A r \in 1..Len(ns.rhs_balance) : ns.rhs_balance[r] = 0

\* C7 amended: one row per node, the sink included, in the order s, A..J, t,
\* right-hand side 0; the row of an internal node has -1 on the edges into it
\* and +1 on the edges out of it; the source's row has +1 on the edges out of
\* the source and -1 on the edges into the sink; the sink's row is zero.
C7_BalanceRows ==
  BalanceDefined =>
    /\ Len(ns.lhs_balance) = Len(nodes)
    /\ Len(ns.rhs_balance) = Len(nodes)
    /\ \A r \in 1..Len(nodes) :
         /\ ns.rhs_balance[r] = 0
         /\ Len(ns.lhs_balance[r]) = NumEdges
         /\ \A j \in 1..NumEdges :
              ns.lhs_balance[r][j] =
                IF nodes[r] = sink THEN 0
                ELSE IF nodes[r] = source
                     THEN (IF From(labs[j]) = source THEN 1
                           ELSE IF To(labs[j]) = sink THEN -1 ELSE 0)
                     ELSE (IF To(labs[j]) = nodes[r] THEN -1
                           ELSE IF From(labs[j]) = nodes[r] THEN 1 ELSE 0)

C7_Witness == BalanceDefined /\ Len(ns.lhs_balance) = 12 /\ ns.lhs_balance[2][1] = -1

\* C8 as stated: the notebook's balance system and the design's (a row for
\* every node but the sink, the source included) admit the same assignments
\* and give the same optimal value.
C8_Claim ==
  BalanceDefined =>
    /\ NotebookFeasible = DesignFeasible
    /\ BestValue(NotebookFeasible) = BestValue(DesignFeasible)

\* C8 amended: the notebook's balance system and the incidence-rule system
\* with a row for every node but the source and the sink admit the same
\* assignments and give the same optimal value.
C8_EquivalentToInternalRows ==
  BalanceDefined =>
    /\ NotebookFeasible = InternalFeasible
    /\ BestValue(NotebookFeasible) = BestValue(InternalFeasible)
    /\ Solved => ns.opt.x \in InternalFeasible /\ - ns.opt.fun = BestValue(InternalFeasible)

C8_Witness ==
  /\ BalanceDefined /\ Solved
  /\ ns.opt.x \in InternalFeasible
  /\ ns.opt.x \notin DesignFeasible
  /\ - ns.opt.fun = 6

\* ---------------------------------------------------------------- C9

\* C9 as stated: the LP handed to the solver carries one bound pair per edge
\* variable (17), each (0, +infinity).
C9_Claim ==
  (Solved /\ Defined({"bnd"})) =>
    /\ Len(ns.bnd) = Len(ns.obj)
    /\ \A i \in 1..Len(ns.bnd) : ns.bnd[i] = <<0, Inf>>
    /\ calls[Len(calls)].bounds = ns.bnd

\* ---------------------------------------------------------------- C6

\* the nodes reached from the nodes of S along the edges (S included)
RECURSIVE Reach(_, _)
Reach(edges, S) ==
  LET T == S \cup { edges[j].to : j \in { i \in 1..Len(edges) : edges[i].from \in S } }
  IN IF T = S THEN S ELSE Reach(edges, T)

NoPath(g, src, snk) == snk \notin Reach(g.edges, {src})

\* edge j lies on a directed cycle
OnCycle(edges, j) == edges[j].from \in Reach(edges, {edges[j].to})

BuiltSolved == Defined({"graph", "lp", "result"}) /\ ns.result.success

\* C6 as stated: with no directed path from source to sink the maximum flow
\* is 0 and every edge carries 0, cycle edges included.
C6_Claim ==
  (BuiltSolved /\ NoPath(ns.graph, ns.source, ns.sink)) =>
    /\ - ns.result.fun = 0
    /\ \A j \in 1..Len(ns.graph.edges) : ns.result.x[j] = 0

\* C6 amended: with no directed path from source to sink, every edge that lies
\* on no directed cycle carries 0, and the maximum flow is 0 unless a directed
\* cycle passes through the sink.
C6_NoPathNoFlowOffCycles ==
  (BuiltSolved /\ NoPath(ns.graph, ns.source, ns.sink)) =>
    /\ \A j \in 1..Len(ns.graph.edges) :
          ~ OnCycle(ns.graph.edges, j) => ns.result.x[j] = 0
    /\ (\A j \in 1..Len(ns.graph.edges) :
          ns.graph.edges[j].to = ns.sink => ~ OnCycle(ns.graph.edges, j))
       => - ns.result.fun = 0
    /\ Defined({"flow"}) =>
         \A j \in 1..Len(ns.graph.edges) :
            ~ OnCycle(ns.graph.edges, j) => ns.flow[j][2] = 0

\* a dead end out of the source carrying nothing beside a cycle carrying flow
C6_Witness ==
  /\ BuiltSolved /\ Defined({"flow"})
  /\ NoPath(ns.graph, ns.source, ns.sink)
  /\ \E j \in 1..Len(ns.graph.edges) :
        /\ ns.graph.edges[j].from = ns.source
        /\ ns.graph.edges[j].capacity > 0
        /\ ~ OnCycle(ns.graph.edges, j)
        /\ ns.result.x[j] = 0
  /\ \E j \in 1..Len(ns.graph.edges) :
        OnCycle(ns.graph.edges, j) /\ ns.result.x[j] > 0

====
